---- MODULE Spec2Model ----
(***************************************************************************)
(* Model of pyethereum/apiserver.py: the HTTP facade over the chain        *)
(* manager.  Tokens, hex digests and header lists are sequences; the       *)
(* chain manager, its index and its miner are the collaborator state.      *)
(***************************************************************************)
EXTENDS Integers, Sequences, FiniteSets, TLC

\* ---------------------------------------------------------------- bounds
MaxTokLen == 4

\* a decimal digit, a hex letter and a character that is not hex
Alphabet == {"1", "a", "g"}

\* ------------------------------------------------------ strings and hex
HeadTok == <<"h", "e", "a", "d">>

RECURSIVE SeqsOfLen(_)
SeqsOfLen(n) ==
    IF n = 0 THEN {<<>>}
    ELSE {Append(s, c) : s \in SeqsOfLen(n - 1), c \in Alphabet}

\* upper-case spelling of the digest 0x1a
UpperTok == <<"1", "A">>

Tokens == UNION {SeqsOfLen(n) : n \in 1..MaxTokLen} \cup {HeadTok, UpperTok}

HexChars == <<"0", "1", "2", "3", "4", "5", "6", "7",
              "8", "9", "a", "b", "c", "d", "e", "f">>

HexVal(c) ==
    CASE c = "0" -> 0  [] c = "1" -> 1  [] c = "2" -> 2  [] c = "3" -> 3
      [] c = "4" -> 4  [] c = "5" -> 5  [] c = "6" -> 6  [] c = "7" -> 7
      [] c = "8" -> 8  [] c = "9" -> 9
      [] c = "a" -> 10 [] c = "b" -> 11 [] c = "c" -> 12
      [] c = "d" -> 13 [] c = "e" -> 14 [] c = "f" -> 15
      [] c = "A" -> 10 [] c = "B" -> 11 [] c = "C" -> 12
      [] c = "D" -> 13 [] c = "E" -> 14 [] c = "F" -> 15
      [] OTHER -> -1

\* str.decode('hex') raises TypeError on odd length or a non-hex character
CanDecode(s) == Len(s) % 2 = 0 /\ \A i \in 1..Len(s) : HexVal(s[i]) >= 0

DecodeHex(s) ==
    [i \in 1..(Len(s) \div 2) |-> 16 * HexVal(s[2 * i - 1]) + HexVal(s[2 * i])]

\* hex_hash(): lower-case hex of the raw digest
EncodeHex(bs) ==
    [i \in 1..(2 * Len(bs)) |->
        IF i % 2 = 1 THEN HexChars[(bs[(i + 1) \div 2] \div 16) + 1]
                     ELSE HexChars[(bs[i \div 2] % 16) + 1]]

\* str.isdigit(): non-empty and every character a decimal digit
IsDigit(s) == Len(s) > 0 /\ \A i \in 1..Len(s) : HexVal(s[i]) \in 0..9

RECURSIVE ParseInt(_)
ParseInt(s) ==
    IF s = <<>> THEN 0
    ELSE 10 * ParseInt(SubSeq(s, 1, Len(s) - 1)) + HexVal(s[Len(s)])

\* ------------------------------------------------------ collaborator data
Genesis == [hash |-> <<170>>, number |-> 0, parent |-> <<>>]
BlkA1   == [hash |-> <<17>>,  number |-> 1, parent |-> <<170>>]
BlkA2   == [hash |-> <<26>>,  number |-> 2, parent |-> <<17>>]
BlkB1   == [hash |-> <<161>>, number |-> 1, parent |-> <<170>>]

Blocks == {Genesis, BlkA1, BlkA2, BlkB1}

NoBlock == [hash |-> <<>>, number |-> -1, parent |-> <<>>]

Tx1 == [hash |-> <<26>>,  ser |-> <<17>>]
Tx2 == [hash |-> <<161>>, ser |-> <<170>>]

Txs == {Tx1, Tx2}

\* the transactions a block carries are fixed by the block
BlockTxs(b) ==
    IF b = BlkA1 THEN {Tx2}
    ELSE IF b = BlkA2 THEN {Tx1}
    ELSE {}

VARIABLES known, head, txIndex, pool, minerBlock,
          req, resp, calls, sent, appCalls, pc, loc

chain == <<known, head, txIndex, pool, minerBlock>>
exch  == <<req, resp, calls, sent, appCalls>>
vars  == <<known, head, txIndex, pool, minerBlock,
           req, resp, calls, sent, appCalls, pc, loc>>

\* ------------------------------------------------- chain manager queries
BlockByHash(h) == CHOOSE b \in Blocks : b.hash = h

RECURSIVE Ancestors(_)
Ancestors(b) ==
    IF b.parent = <<>> THEN {b}
    ELSE {b} \cup Ancestors(BlockByHash(b.parent))

\* chain_manager.in_main_branch(blk)
InMainBranch(blk) == blk \in Ancestors(head)

\* chain_manager.index.get_block_by_number(n); KeyError when absent
HasNumber(n) == \E b \in Ancestors(head) : b.number = n
BlockByNumber(n) == CHOOSE b \in Ancestors(head) : b.number = n

\* chain_manager.get(h); KeyError when absent
HasBlock(h) == \E b \in known : b.hash = h

\* chain_manager.index.get_transaction(h); KeyError when absent
InIndex(h) == \E e \in txIndex : e.tx.hash = h
IndexEntry(h) == CHOOSE e \in txIndex : e.tx.hash = h

\* Transaction.hex_deserialize(body); raises when the body is not a
\* hex-encoded serialized transaction
CanDeserialize(body) ==
    CanDecode(body) /\ \E t \in Txs : t.ser = DecodeHex(body)
Deserialize(body) == CHOOSE t \in Txs : t.ser = DecodeHex(body)

\* ------------------------------------------------------------- responses
BaseUrl == "/api/v0alpha"

JsonHeaders  == << <<"Content-Type", <<"application/json">> >> >>
ErrorHeaders == << <<"Content-Type", <<"text/html; charset=UTF-8">> >> >>

NoBody == [kind |-> "none"]
NoTx   == [hash |-> <<>>, ser |-> <<>>]

\* a handler returning a dict
Ok(body, cs) ==
    [status |-> 200, headers |-> JsonHeaders, body |-> body,
     calls |-> cs, sent |-> <<>>]

\* bottle.abort(code, text)
Abort(code, text, arg, cs) ==
    [status |-> code, headers |-> ErrorHeaders,
     body |-> [kind |-> "error", text |-> text, arg |-> arg],
     calls |-> cs, sent |-> <<>>]

\* an exception that leaves the handler: bottle answers 500
Raise(exc, cs) ==
    [status |-> 500, headers |-> ErrorHeaders,
     body |-> [kind |-> "error", text |-> exc, arg |-> <<>>],
     calls |-> cs, sent |-> <<>>]

\* bottle.redirect(url)
Redirect(url, cs, sig) ==
    [status |-> 303, headers |-> << <<"Location", url>> >>,
     body |-> [kind |-> "redirect", location |-> url],
     calls |-> cs, sent |-> sig]

BlockDict(b) == [hash |-> EncodeHex(b.hash), number |-> b.number]

make_blocks_response(bs) ==
    [kind |-> "blocks", blocks |-> [i \in 1..Len(bs) |-> BlockDict(bs[i])]]

\* ---------------------------------------------------------------- blocks
\* variant: the decode failure is not turned into KeyError
block_NoCatch(arg) ==
    IF arg = HeadTok
    THEN Ok(make_blocks_response(<<head>>), <<"head">>)
    ELSE IF IsDigit(arg)
    THEN IF HasNumber(ParseInt(arg))
         THEN Ok(make_blocks_response(<<BlockByNumber(ParseInt(arg))>>),
                 <<"index.get_block_by_number", "get">>)
         ELSE Abort(404, "No block", arg, <<"index.get_block_by_number">>)
    ELSE IF ~CanDecode(arg)
    THEN Raise("TypeError", <<>>)
    ELSE IF HasBlock(DecodeHex(arg))
    THEN Ok(make_blocks_response(<<BlockByHash(DecodeHex(arg))>>), <<"get">>)
    ELSE Abort(404, "No block", arg, <<"get">>)

\* variant: a token that decodes to a known hash is fetched by hash before
\* it is tried as a height
block_HashFirst(arg) ==
    IF arg = HeadTok
    THEN Ok(make_blocks_response(<<head>>), <<"head">>)
    ELSE IF CanDecode(arg) /\ HasBlock(DecodeHex(arg))
    THEN Ok(make_blocks_response(<<BlockByHash(DecodeHex(arg))>>), <<"get">>)
    ELSE IF IsDigit(arg)
    THEN IF HasNumber(ParseInt(arg))
         THEN Ok(make_blocks_response(<<BlockByNumber(ParseInt(arg))>>),
                 <<"index.get_block_by_number", "get">>)
         ELSE Abort(404, "No block", arg, <<"index.get_block_by_number">>)
    ELSE Abort(404, "No block", arg, <<"get">>)

block(arg) ==
    IF arg = HeadTok
    THEN Ok(make_blocks_response(<<head>>), <<"head">>)
    ELSE IF IsDigit(arg)
    THEN IF HasNumber(ParseInt(arg))
         THEN Ok(make_blocks_response(<<BlockByNumber(ParseInt(arg))>>),
                 <<"index.get_block_by_number", "get">>)
         ELSE Abort(404, "No block", arg, <<"index.get_block_by_number">>)
    ELSE IF ~CanDecode(arg)
    THEN Abort(404, "No block", arg, <<>>)
    ELSE IF HasBlock(DecodeHex(arg))
    THEN Ok(make_blocks_response(<<BlockByHash(DecodeHex(arg))>>), <<"get">>)
    ELSE Abort(404, "No block", arg, <<"get">>)

\* ---------------------------------------------------------- transactions
TxDict(t, blk, conf) ==
    [kind |-> "transactions", hash |-> EncodeHex(t.hash),
     block |-> EncodeHex(blk.hash), confirmations |-> conf]

\* variant: the signal is sent before the body is deserialized
add_transaction_SendFirst(body) ==
    IF ~CanDeserialize(body)
    THEN [Raise("hex_deserialize", <<>>) EXCEPT !.sent = <<NoTx>>]
    ELSE Redirect(<<BaseUrl, "/transactions/">> \o EncodeHex(Deserialize(body).hash),
                  <<>>, <<Deserialize(body)>>)

add_transaction(body) ==
    IF ~CanDeserialize(body)
    THEN Raise("hex_deserialize", <<>>)
    ELSE Redirect(<<BaseUrl, "/transactions/">> \o EncodeHex(Deserialize(body).hash),
                  <<>>, <<Deserialize(body)>>)

\* variant: the branch-membership test is skipped
TxResponse_NoBranchCheck(t, blk, cs) ==
    IF blk = NoBlock
    THEN Raise("AttributeError", cs)
    ELSE Ok(TxDict(t, blk, head.number - blk.number),
            cs \o <<"in_main_branch", "head">>)

\* lines 161-167: the response for (tx, blk)
TxResponse(t, blk, cs) ==
    IF blk = NoBlock
    THEN Raise("AttributeError", cs)
    ELSE IF ~InMainBranch(blk)
    THEN Ok(TxDict(t, blk, 0), cs \o <<"in_main_branch">>)
    ELSE Ok(TxDict(t, blk, head.number - blk.number),
            cs \o <<"in_main_branch", "head">>)

\* line 156: the pool entries whose hex hash equals the token
Found(arg) == {t \in pool : EncodeHex(t.hash) = arg}

\* variant: the pending pool is asked before the committed index
get_transactions_PoolFirst(arg) ==
    IF ~CanDecode(arg)
    THEN Abort(500, "No hex", arg, <<>>)
    ELSE IF Found(arg) # {}
    THEN TxResponse(CHOOSE t \in Found(arg) : TRUE, minerBlock,
                    <<"miner.get_transactions", "miner.block">>)
    ELSE IF InIndex(DecodeHex(arg))
    THEN TxResponse(IndexEntry(DecodeHex(arg)).tx, IndexEntry(DecodeHex(arg)).blk,
                    <<"miner.get_transactions", "index.get_transaction">>)
    ELSE Abort(404, "No Transaction", arg,
               <<"miner.get_transactions", "index.get_transaction">>)

get_transactions(arg) ==
    IF ~CanDecode(arg)
    THEN Abort(500, "No hex", arg, <<>>)
    ELSE IF InIndex(DecodeHex(arg))
    THEN TxResponse(IndexEntry(DecodeHex(arg)).tx, IndexEntry(DecodeHex(arg)).blk,
                    <<"index.get_transaction">>)
    ELSE IF Found(arg) = {}
    THEN Abort(404, "No Transaction", arg,
               <<"index.get_transaction", "miner.get_transactions">>)
    ELSE TxResponse(CHOOSE t \in Found(arg) : TRUE, minerBlock,
                    <<"index.get_transaction", "miner.get_transactions",
                      "miner.block">>)

\* ------------------------------------------------------------ route table
Methods == {"GET", "PUT", "OPTIONS"}
Paths   == {"/blocks/<arg>", "/transactions/", "/transactions/<arg>"}

app(method, path, arg) ==
    IF method = "GET" /\ path = "/blocks/<arg>" THEN block(arg)
    ELSE IF method = "PUT" /\ path = "/transactions/" THEN add_transaction(arg)
    ELSE IF method = "GET" /\ path = "/transactions/<arg>" THEN get_transactions(arg)
    ELSE Abort(405, "Method not allowed.", <<>>, <<>>)

\* ------------------------------------------------------------------ CORS
HEADERS ==
    << <<"Access-Control-Allow-Origin", <<"*">> >>,
       <<"Access-Control-Allow-Methods", <<"GET, POST, OPTIONS">> >>,
       <<"Access-Control-Allow-Headers",
         <<"Origin, Accept, Content-Type, X-Requested-With, X-CSRF-Token">> >> >>

\* variant: the fixed headers replace the inner header list
my_start_response_Replace(inner) ==
    [status |-> inner.status, headers |-> HEADERS,
     body |-> inner.body, calls |-> inner.calls, sent |-> inner.sent,
     appCalls |-> 1]

\* my_start_response: extend the inner header list, then pass it on
my_start_response(inner) ==
    [status |-> inner.status, headers |-> inner.headers \o HEADERS,
     body |-> inner.body, calls |-> inner.calls, sent |-> inner.sent,
     appCalls |-> 1]

\* variant: a preflight request is also passed to the wrapped application
CorsMiddleware_NoShortCircuit(method, path, arg) ==
    IF method = "OPTIONS"
    THEN [status |-> 200,
          headers |-> HEADERS \o << <<"Content-Length", <<"0">> >> >>,
          body |-> [kind |-> "empty"],
          calls |-> app(method, path, arg).calls,
          sent |-> app(method, path, arg).sent,
          appCalls |-> 1]
    ELSE my_start_response(app(method, path, arg))

CorsMiddleware(method, path, arg) ==
    IF method = "OPTIONS"
    THEN [status |-> 200,
          headers |-> HEADERS \o << <<"Content-Length", <<"0">> >> >>,
          body |-> [kind |-> "empty"], calls |-> <<>>, sent |-> <<>>,
          appCalls |-> 0]
    ELSE my_start_response(app(method, path, arg))

\* ------------------------------------------------------------ state machine
NoReq  == [method |-> "none", path |-> "none", arg |-> <<>>]
NoResp == [status |-> 0, headers |-> <<>>, body |-> NoBody]
NoLoc  == [tx |-> NoTx, blk |-> NoBlock, calls |-> <<>>]

Init ==
    /\ known = {Genesis}
    /\ head = Genesis
    /\ txIndex = {}
    /\ pool = {}
    /\ minerBlock = NoBlock
    /\ req = NoReq
    /\ resp = NoResp
    /\ calls = <<>>
    /\ sent = <<>>
    /\ appCalls = 0
    /\ pc = "idle"
    /\ loc = NoLoc

\* start_response(status, headers) and the returned body reach the client
Send(out) ==
    /\ resp' = [status |-> out.status, headers |-> out.headers, body |-> out.body]
    /\ calls' = out.calls
    /\ sent' = out.sent
    /\ appCalls' = out.appCalls

\* one request through the middleware, the route table and its handler
Serve(method, path, arg) ==
    /\ pc = "idle" /\ resp = NoResp
    /\ req' = [method |-> method, path |-> path, arg |-> arg]
    /\ Send(CorsMiddleware(method, path, arg))
    /\ UNCHANGED <<chain, pc, loc>>

Options(path, arg)   == Serve("OPTIONS", path, arg)
GetBlock(arg)        == Serve("GET", "/blocks/<arg>", arg)
PutTransaction(body) == Serve("PUT", "/transactions/", body)
GetTransaction(arg)  == Serve("GET", "/transactions/<arg>", arg)

\* the request is over; handlers keep nothing between requests
Complete ==
    /\ pc = "idle" /\ resp # NoResp
    /\ req' = NoReq /\ resp' = NoResp
    /\ calls' = <<>> /\ sent' = <<>> /\ appCalls' = 0
    /\ UNCHANGED <<chain, pc, loc>>

\* ---- the chain manager thread
\* a block arrives and its transactions are indexed; a block built on the
\* head becomes the head, a block on a side branch may become the head
AddBlock(b, asHead) ==
    /\ resp = NoResp
    /\ b \notin known /\ b.parent \in {k.hash : k \in known}
    /\ b.parent = head.hash => asHead
    /\ known' = known \cup {b}
    /\ txIndex' = txIndex \cup {[tx |-> t, blk |-> b] : t \in BlockTxs(b)}
    /\ head' = IF asHead THEN b ELSE head
    /\ UNCHANGED <<pool, minerBlock, exch, pc, loc>>

\* the miner accepts a transaction into its pool
PoolAdd(t) ==
    /\ resp = NoResp
    /\ t \notin pool
    /\ pool' = pool \cup {t}
    /\ UNCHANGED <<known, head, txIndex, minerBlock, exch, pc, loc>>

\* the miner drops a transaction from its pool
PoolPrune(t) ==
    /\ resp = NoResp
    /\ t \in pool
    /\ pool' = pool \ {t}
    /\ UNCHANGED <<known, head, txIndex, minerBlock, exch, pc, loc>>

\* the miner replaces its working block
SetMinerBlock(b) ==
    /\ resp = NoResp
    /\ b # minerBlock
    /\ minerBlock' = b
    /\ UNCHANGED <<known, head, txIndex, pool, exch, pc, loc>>

AddBlockStep      == \E b \in Blocks, asHead \in BOOLEAN : AddBlock(b, asHead)
PoolAddStep       == \E t \in Txs : PoolAdd(t)
PoolPruneStep     == \E t \in Txs : PoolPrune(t)
SetMinerBlockStep == \E b \in Blocks \cup {NoBlock} : SetMinerBlock(b)

OptionsStep        == resp = NoResp /\ pc = "idle" /\ \E p \in Paths, a \in Tokens : Options(p, a)
GetBlockStep       == resp = NoResp /\ pc = "idle" /\ \E a \in Tokens : GetBlock(a)
PutTransactionStep == resp = NoResp /\ pc = "idle" /\ \E a \in Tokens : PutTransaction(a)
GetTransactionStep == resp = NoResp /\ pc = "idle" /\ \E a \in Tokens : GetTransaction(a)

Next ==
    \/ OptionsStep
    \/ GetBlockStep
    \/ PutTransactionStep
    \/ GetTransactionStep
    \/ Complete
    \/ AddBlockStep
    \/ PoolAddStep
    \/ PoolPruneStep
    \/ SetMinerBlockStep

Spec == Init /\ [][Next]_vars

\* ---- get_transactions running beside the chain manager thread: one step
\* per read of the collaborator
Finish(out) ==
    /\ Send(my_start_response(out))
    /\ pc' = "idle"
    /\ loc' = NoLoc

GT_Begin(arg) ==
    /\ pc = "idle" /\ resp = NoResp
    /\ req' = [method |-> "GET", path |-> "/transactions/<arg>", arg |-> arg]
    /\ IF ~CanDecode(arg)
       THEN Finish(Abort(500, "No hex", arg, <<>>))
       ELSE /\ pc' = "index"
            /\ UNCHANGED <<resp, calls, sent, appCalls, loc>>
    /\ UNCHANGED chain

GT_Index ==
    /\ pc = "index"
    /\ IF InIndex(DecodeHex(req.arg))
       THEN /\ loc' = [tx |-> IndexEntry(DecodeHex(req.arg)).tx,
                       blk |-> IndexEntry(DecodeHex(req.arg)).blk,
                       calls |-> <<"index.get_transaction">>]
            /\ pc' = "response"
       ELSE /\ loc' = [loc EXCEPT !.calls = <<"index.get_transaction">>]
            /\ pc' = "pool"
    /\ UNCHANGED <<chain, exch>>

GT_Pool ==
    /\ pc = "pool"
    /\ IF Found(req.arg) = {}
       THEN /\ Finish(Abort(404, "No Transaction", req.arg,
                            loc.calls \o <<"miner.get_transactions">>))
       ELSE /\ loc' = [loc EXCEPT !.tx = CHOOSE t \in Found(req.arg) : TRUE,
                                  !.calls = @ \o <<"miner.get_transactions">>]
            /\ pc' = "minerblock"
            /\ UNCHANGED <<resp, calls, sent, appCalls>>
    /\ UNCHANGED <<chain, req>>

GT_MinerBlock ==
    /\ pc = "minerblock"
    /\ loc' = [loc EXCEPT !.blk = minerBlock, !.calls = @ \o <<"miner.block">>]
    /\ pc' = "response"
    /\ UNCHANGED <<chain, exch>>

GT_Branch ==
    /\ pc = "response"
    /\ IF loc.blk = NoBlock
       THEN Finish(Raise("AttributeError", loc.calls))
       ELSE IF ~InMainBranch(loc.blk)
       THEN Finish(Ok(TxDict(loc.tx, loc.blk, 0),
                      loc.calls \o <<"in_main_branch">>))
       ELSE /\ pc' = "head"
            /\ loc' = [loc EXCEPT !.calls = @ \o <<"in_main_branch">>]
            /\ UNCHANGED <<resp, calls, sent, appCalls>>
    /\ UNCHANGED <<chain, req>>

GT_Head ==
    /\ pc = "head"
    /\ Finish(Ok(TxDict(loc.tx, loc.blk, head.number - loc.blk.number),
                 loc.calls \o <<"head">>))
    /\ UNCHANGED <<chain, req>>

GT_BeginStep == resp = NoResp /\ pc = "idle" /\ \E a \in Tokens : GT_Begin(a)

NextRace ==
    \/ GT_BeginStep
    \/ GT_Index
    \/ GT_Pool
    \/ GT_MinerBlock
    \/ GT_Branch
    \/ GT_Head
    \/ Complete
    \/ AddBlockStep
    \/ PoolAddStep
    \/ PoolPruneStep
    \/ SetMinerBlockStep

SpecRace == Init /\ [][NextRace]_vars


\* ================================================================ claims
Answered == resp # NoResp

IsGetTx ==
    Answered /\ req.method = "GET" /\ req.path = "/transactions/<arg>"
IsGetBlock ==
    Answered /\ req.method = "GET" /\ req.path = "/blocks/<arg>"
IsPut ==
    Answered /\ req.method = "PUT" /\ req.path = "/transactions/"
IsOptions == Answered /\ req.method = "OPTIONS"

Range(s) == {s[i] : i \in 1..Len(s)}

IsTxBody == resp.status = 200 /\ resp.body.kind = "transactions"

\* the glossary's confirmation count: canonical blocks built on top of blk
BuiltOnTop(blk) ==
    IF blk \in Ancestors(head)
    THEN Cardinality({b \in Ancestors(head) : b.number > blk.number})
    ELSE 0

\* C1: a token that is not decodable hex makes GET /transactions/<token>
\* end with 400, and neither the index nor the pool is queried
C1_MalformedIsBadRequest ==
    (IsGetTx /\ ~CanDecode(req.arg)) =>
        (resp.status = 400 /\ calls = <<>>)

\* C2: the index is asked first and the pool only after the index missed; a
\* hash in the index is answered with the index's block and its confirmation
\* count, whatever the pool still holds
C2_IndexIsAuthoritative ==
    IsGetTx =>
        /\ ("miner.get_transactions" \in Range(calls) =>
               /\ calls[1] = "index.get_transaction"
               /\ ~InIndex(DecodeHex(req.arg)))
        /\ (CanDecode(req.arg) /\ InIndex(DecodeHex(req.arg)) =>
               /\ IsTxBody
               /\ resp.body.block = EncodeHex(IndexEntry(DecodeHex(req.arg)).blk.hash)
               /\ resp.body.confirmations = BuiltOnTop(IndexEntry(DecodeHex(req.arg)).blk)
               /\ calls[1] = "index.get_transaction"
               /\ Range(calls) \cap {"miner.get_transactions", "miner.block"} = {})

\* C2 witness: a committed transaction whose stale copy is still pooled, with
\* a working block different from the containing block
C2_Witness ==
    /\ IsGetTx /\ CanDecode(req.arg) /\ InIndex(DecodeHex(req.arg))
    /\ IndexEntry(DecodeHex(req.arg)).tx \in pool
    /\ req.arg = EncodeHex(DecodeHex(req.arg))
    /\ minerBlock # NoBlock
    /\ minerBlock # IndexEntry(DecodeHex(req.arg)).blk
    /\ IsTxBody

\* C3: a transaction committed at height b is reported with block = the
\* containing block's hash and confirmations = h - b on the canonical branch,
\* 0 off it
C3_Confirmations ==
    (IsGetTx /\ CanDecode(req.arg) /\ InIndex(DecodeHex(req.arg))) =>
        LET blk == IndexEntry(DecodeHex(req.arg)).blk IN
        /\ IsTxBody
        /\ resp.body.block = EncodeHex(blk.hash)
        /\ (InMainBranch(blk) => resp.body.confirmations = head.number - blk.number)
        /\ (~InMainBranch(blk) => resp.body.confirmations = 0)

\* C3 witness: a committed transaction one block below the head
C3_Witness ==
    /\ IsGetTx /\ CanDecode(req.arg) /\ InIndex(DecodeHex(req.arg))
    /\ InMainBranch(IndexEntry(DecodeHex(req.arg)).blk)
    /\ IsTxBody /\ resp.body.confirmations = 1

\* C3 second case reached: a committed transaction off the canonical branch,
\* in a block at another height than the head
C3_WitnessOffBranch ==
    /\ IsGetTx /\ CanDecode(req.arg) /\ InIndex(DecodeHex(req.arg))
    /\ ~InMainBranch(IndexEntry(DecodeHex(req.arg)).blk)
    /\ head.number # IndexEntry(DecodeHex(req.arg)).blk.number
    /\ IsTxBody /\ resp.body.confirmations = 0

\* C4: a transaction only in the pool is answered successfully with
\* confirmations 0 and the miner's working block, whatever that block is
C4_PendingIsUnconfirmed ==
    (/\ IsGetTx /\ CanDecode(req.arg) /\ ~InIndex(DecodeHex(req.arg))
     /\ \E t \in pool : t.hash = DecodeHex(req.arg)) =>
        /\ IsTxBody
        /\ resp.body.confirmations = 0
        /\ (minerBlock # NoBlock => resp.body.block = EncodeHex(minerBlock.hash))

\* the lookups of section 4.1, stated without the handler
Resolves(a) ==
    IF IsDigit(a) THEN ParseInt(a) <= head.number
    ELSE CanDecode(a) /\ DecodeHex(a) \in {b.hash : b \in known}

\* C5: GET /blocks/<token> for a token, other than "head", that resolves to
\* no block ends with 404; no token ends with 400 or 500
C5_UnresolvedIsNotFound ==
    (IsGetBlock /\ req.arg # HeadTok) =>
        /\ resp.status \in {200, 404}
        /\ (~Resolves(req.arg) => resp.status = 404 /\ resp.body.kind = "error")

\* C5 witness: a token with a non-hex character answered 404
C5_Witness ==
    /\ IsGetBlock /\ "g" \in Range(req.arg) /\ Len(req.arg) = 2
    /\ resp.status = 404

\* C5 further cases reached: an unknown well-formed hash, a well-formed token
\* of the wrong length, a height beyond the chain
C5_WitnessUnknownHash ==
    /\ IsGetBlock /\ CanDecode(req.arg) /\ ~IsDigit(req.arg)
    /\ Len(DecodeHex(req.arg)) = 1 /\ resp.status = 404
C5_WitnessWrongLength ==
    /\ IsGetBlock /\ CanDecode(req.arg) /\ ~IsDigit(req.arg)
    /\ Len(DecodeHex(req.arg)) = 2 /\ resp.status = 404
C5_WitnessBeyondHeight ==
    /\ IsGetBlock /\ IsDigit(req.arg) /\ head.number >= 1
    /\ ParseInt(req.arg) > head.number /\ resp.status = 404

ByHash(n) == block(EncodeHex(BlockByNumber(n).hash))

\* C6 as stated: GET /blocks/n, n within the chain height, answers what
\* GET /blocks/<hex hash of the canonical block at n> answers
C6_HeightEqualsHash ==
    (IsGetBlock /\ IsDigit(req.arg) /\ ParseInt(req.arg) <= head.number) =>
        /\ resp.status = ByHash(ParseInt(req.arg)).status
        /\ resp.body = ByHash(ParseInt(req.arg)).body

\* C6 amended: an all-digit token is resolved as a height, and answers what
\* the block's own hex hash answers when that hash is not itself all digits
C6_HeightEqualsNonDigitHash ==
    (IsGetBlock /\ IsDigit(req.arg)) =>
        IF ParseInt(req.arg) <= head.number
        THEN LET b == CHOOSE c \in Ancestors(head) : c.number = ParseInt(req.arg) IN
             /\ resp.status = 200
             /\ resp.body = [kind |-> "blocks", blocks |-> <<BlockDict(b)>>]
             /\ (~IsDigit(EncodeHex(b.hash)) =>
                    /\ resp.status = block(EncodeHex(b.hash)).status
                    /\ resp.body = block(EncodeHex(b.hash)).body)
        ELSE resp.status = 404

\* C6 witness: height 1 answered with a block whose hex hash has a letter
C6_Witness ==
    /\ IsGetBlock /\ IsDigit(req.arg) /\ ParseInt(req.arg) = 1
    /\ head.number >= 1
    /\ ~IsDigit(resp.body.blocks[1].hash)
    /\ resp.status = 200

\* C6 second case reached: an all-digit token that spells a known block's
\* hash and is beyond the chain height
C6_WitnessDigitHash ==
    /\ IsGetBlock /\ IsDigit(req.arg) /\ CanDecode(req.arg)
    /\ HasBlock(DecodeHex(req.arg))
    /\ ParseInt(req.arg) > head.number /\ resp.status = 404

NoContentLength == << <<"Content-Length", <<"0">> >> >>

\* C7 as stated: OPTIONS on any path is answered 200 with an empty body and
\* exactly the three CORS headers, and the application is not invoked
C7_PreflightExactlyThree ==
    IsOptions =>
        /\ resp.status = 200 /\ resp.body = [kind |-> "empty"]
        /\ resp.headers = HEADERS
        /\ appCalls = 0 /\ calls = <<>> /\ sent = <<>>

\* C7 amended: the header list is the three CORS headers followed by
\* Content-Length: 0
C7_PreflightShortCircuit ==
    IsOptions =>
        /\ resp.status = 200 /\ resp.body = [kind |-> "empty"]
        /\ resp.headers = HEADERS \o NoContentLength
        /\ appCalls = 0 /\ calls = <<>> /\ sent = <<>>

\* C7 witness: a preflight on the submission path carrying a body that a PUT
\* would have accepted
C7_Witness ==
    /\ IsOptions /\ req.path = "/transactions/" /\ CanDeserialize(req.arg)
    /\ resp.status = 200

\* the header list bottle hands to start_response, by kind of answer
InnerHeadersOf(r) ==
    IF r.body.kind = "redirect" THEN << <<"Location", r.body.location>> >>
    ELSE IF r.body.kind = "error" THEN ErrorHeaders
    ELSE JsonHeaders

\* C8: a request that is not OPTIONS invokes the application once and sends
\* the inner header list, in order, followed by the three CORS headers
C8_HeadersAppended ==
    (Answered /\ req.method # "OPTIONS") =>
        /\ appCalls = 1
        /\ Len(resp.headers) = Len(InnerHeadersOf(resp)) + 3
        /\ SubSeq(resp.headers, 1, Len(resp.headers) - 3) = InnerHeadersOf(resp)
        /\ SubSeq(resp.headers, Len(resp.headers) - 2, Len(resp.headers)) = HEADERS

\* C8 witness: a redirect whose Location header stays first
C8_Witness ==
    /\ Answered /\ req.method = "PUT" /\ resp.status = 303
    /\ resp.headers[1][1] = "Location"
    /\ Len(resp.headers) = 4

\* C8 further statuses reached
C8_WitnessError == Answered /\ req.method = "GET" /\ resp.status = 500
C8_WitnessNotFound == Answered /\ req.method = "GET" /\ resp.status = 404

C9_WitnessRejected ==
    IsPut /\ CanDecode(req.arg) /\ ~CanDeserialize(req.arg) /\ resp.status = 500

\* C10: every successful answer of get_transactions reports a confirmation
\* count that is not negative
C10_NonNegative ==
    IsTxBody => resp.body.confirmations >= 0
====
